---------------------------- MODULE Spec2Model ----------------------------
(***************************************************************************)
(* Model of src/src/devrev_mcp/server.py: the tool catalog returned by     *)
(* handle_list_tools and the dispatcher handle_call_tool, which validates  *)
(* the arguments of one invocation, builds the outbound payload, calls the *)
(* remote client and formats the response as text content.                 *)
(***************************************************************************)
EXTENDS Integers, Sequences, FiniteSets, TLC

(***************************************************************************)
(* Bounds of the input space.                                              *)
(***************************************************************************)
\* longest array value a caller supplies
MaxListLen == 1
\* largest integer value a caller supplies (integers range over 0..MaxInt)
MaxInt == 1

(***************************************************************************)
(* Python values.  Every value carries its type tag t and, under the field *)
(* of its type, its content: s of a str, l of a list (of strings), n of an *)
(* int, d of a dict (a function from keys to values).                      *)
(***************************************************************************)
PyNone == [t |-> "none", s |-> "", l |-> <<>>, n |-> 0, d |-> <<>>]
PyStr(s) == [t |-> "str", s |-> s, l |-> <<>>, n |-> 0, d |-> <<>>]
PyList(l) == [t |-> "list", s |-> "", l |-> l, n |-> 0, d |-> <<>>]
PyInt(n) == [t |-> "int", s |-> "", l |-> <<>>, n |-> n, d |-> <<>>]
PyDict(f) == [t |-> "dict", s |-> "", l |-> <<>>, n |-> 0, d |-> f]

\* Truthy as a presence check (is not None) instead of truthiness
TruthyPresenceOnly(x) == x.t # "none"

\* Python truthiness, as tested by every "if not x" / "if x" of the handler
Truthy(x) ==
    CASE x.t = "none" -> FALSE
      [] x.t = "str"  -> x.s # ""
      [] x.t = "list" -> Len(x.l) # 0
      [] x.t = "int"  -> x.n # 0
      [] x.t = "dict" -> DOMAIN x.d # {}

\* arguments.get(key): None when the key is absent
Get(arguments, key) ==
    IF key \in DOMAIN arguments.d THEN arguments.d[key] ELSE PyNone

\* GetDefault as arguments.get(key) or default: the default also replaces
\* a supplied None or empty string
GetDefaultOrFalsy(arguments, key, default) ==
    IF key \in DOMAIN arguments.d /\ arguments.d[key] \notin {PyNone, PyStr("")}
    THEN arguments.d[key] ELSE default

\* arguments.get(key, default): the default only when the key is absent
GetDefault(arguments, key, default) ==
    IF key \in DOMAIN arguments.d THEN arguments.d[key] ELSE default

(***************************************************************************)
(* Text.  A text is the sequence of the pieces an f-string concatenates,   *)
(* so that containment of one text in another can be decided.              *)
(***************************************************************************)
Digit(d) == <<"0", "1", "2", "3", "4", "5", "6", "7", "8", "9">>[d + 1]

RECURSIVE IntStr(_)
\* str(n) of a non-negative integer: its decimal digits
IntStr(n) == IF n < 10 THEN <<Digit(n)>> ELSE IntStr(n \div 10) \o <<Digit(n % 10)>>

RECURSIVE Repr(_)
RECURSIVE ReprItems(_)
RECURSIVE ReprEntries(_, _)
\* repr(x): strings are quoted, containers hold the repr of their members
Repr(x) ==
    CASE x.t = "none" -> <<"None">>
      [] x.t = "str"  -> <<"'", x.s, "'">>
      [] x.t = "int"  -> IntStr(x.n)
      [] x.t = "list" -> <<"[">> \o ReprItems(x.l) \o <<"]">>
      [] x.t = "dict" -> <<"{">> \o ReprEntries(x.d, DOMAIN x.d) \o <<"}">>
ReprItems(l) ==
    IF Len(l) = 0 THEN <<>>
    ELSE IF Len(l) = 1 THEN <<"'", l[1], "'">>
    ELSE <<"'", l[1], "'", ", ">> \o ReprItems(Tail(l))
\* the decoded bodies of the model hold at most one key, so the order of the
\* entries is immaterial
ReprEntries(f, keys) ==
    IF keys = {} THEN <<>>
    ELSE LET k == CHOOSE k \in keys : TRUE
         IN  <<"'", k, "'", ": ">> \o Repr(f[k])
             \o (IF keys \ {k} = {} THEN <<>> ELSE <<", ">> \o ReprEntries(f, keys \ {k}))

\* str(x), what an f-string {x} yields: a string is itself, anything else its repr
Format(x) ==
    IF x.t = "str" THEN (IF x.s = "" THEN <<>> ELSE <<x.s>>) ELSE Repr(x)

\* whether text part occurs in text whole
Contains(whole, part) ==
    \E i \in 0..(Len(whole) - Len(part)) :
        \A j \in 1..Len(part) : whole[i + j] = part[j]

(***************************************************************************)
(* The catalog.                                                            *)
(***************************************************************************)
Tool(name, properties, required) ==
    [name |-> name, properties |-> properties, required |-> required]

\* ListTools with the work tools under the names get_work, create_work,
\* update_work
ListToolsRenamed ==
    << Tool("search", [query |-> "string", namespace |-> "string"], <<"query", "namespace">>),
       Tool("get_current_user", <<>>, <<>>),
       Tool("get_work", [id |-> "string"], <<"id">>),
       Tool("create_work",
            [type |-> "string", title |-> "string", body |-> "string",
             applies_to_part |-> "string", owned_by |-> "array"],
            <<"type", "title", "applies_to_part">>),
       Tool("update_work",
            [type |-> "string", id |-> "string", title |-> "string", body |-> "string"],
            <<"id", "type">>),
       Tool("list_works",
            [type |-> "array", applies_to_part |-> "array", created_by |-> "array",
             owned_by |-> "array", stage |-> "array", state |-> "array",
             limit |-> "integer"],
            <<>>),
       Tool("get_part", [id |-> "string"], <<"id">>),
       Tool("create_part",
            [type |-> "string", name |-> "string", owned_by |-> "array",
             parent_part |-> "array", description |-> "string"],
            <<"type", "name", "owned_by", "parent_part">>),
       Tool("update_part",
            [type |-> "string", id |-> "string", name |-> "string",
             description |-> "string", owned_by |-> "array",
             target_close_date |-> "string", target_start_date |-> "string"],
            <<"id", "type">>) >>

\* handle_list_tools: the tools in declaration order, each with the kind of
\* every property of its inputSchema and its "required" list
ListTools ==
    << Tool("search", [query |-> "string", namespace |-> "string"], <<"query", "namespace">>),
       Tool("get_current_user", <<>>, <<>>),
       Tool("get_object", [id |-> "string"], <<"id">>),
       Tool("create_object",
            [type |-> "string", title |-> "string", body |-> "string",
             applies_to_part |-> "string", owned_by |-> "array"],
            <<"type", "title", "applies_to_part">>),
       Tool("update_object",
            [type |-> "string", id |-> "string", title |-> "string", body |-> "string"],
            <<"id", "type">>),
       Tool("list_works",
            [type |-> "array", applies_to_part |-> "array", created_by |-> "array",
             owned_by |-> "array", stage |-> "array", state |-> "array",
             limit |-> "integer"],
            <<>>),
       Tool("get_part", [id |-> "string"], <<"id">>),
       Tool("create_part",
            [type |-> "string", name |-> "string", owned_by |-> "array",
             parent_part |-> "array", description |-> "string"],
            <<"type", "name", "owned_by", "parent_part">>),
       Tool("update_part",
            [type |-> "string", id |-> "string", name |-> "string",
             description |-> "string", owned_by |-> "array",
             target_close_date |-> "string", target_start_date |-> "string"],
            <<"id", "type">>) >>

\* the names the catalog lists
ToolNames == { ListTools[i].name : i \in 1..Len(ListTools) }

\* the catalog entry of a listed name
ToolOf(name) == ListTools[CHOOSE i \in 1..Len(ListTools) : ListTools[i].name = name]

\* the fields of a tool's schema "required" list
RequiredOf(name) ==
    LET r == ToolOf(name).required IN { r[i] : i \in 1..Len(r) }

(***************************************************************************)
(* The invocations a caller sends: a tool name and either no arguments     *)
(* (None) or a map from some of the tool's keys to values.                 *)
(***************************************************************************)
\* names a caller may send that the catalog does not list
UnknownNames == {"not_a_real_tool", "get_work"}

\* keys a caller may send beyond the properties of the tool's schema
ExtraKeys(name) ==
    IF name = "update_object"
    THEN [applies_to_part |-> "string", owned_by |-> "array"]
    ELSE IF name \in UnknownNames \cup {"get_current_user"} THEN [id |-> "string"]
    ELSE <<>>

\* the keys of an invocation of the tool, with the kind of value each holds
KeysOf(name) ==
    IF name \in ToolNames THEN ToolOf(name).properties @@ ExtraKeys(name)
    ELSE ExtraKeys(name)

\* a non-empty string for each key
SampleOf ==
    [query |-> "bug", namespace |-> "issue", id |-> "X", type |-> "ticket",
     title |-> "t", body |-> "b", applies_to_part |-> "PART-1",
     owned_by |-> "DEVU-1", created_by |-> "DEVU-2", stage |-> "triage",
     state |-> "open", limit |-> "ten", name |-> "n", parent_part |-> "PROD-1",
     description |-> "d", target_close_date |-> "2025-06-03T00:00:00Z",
     target_start_date |-> "2025-06-01T00:00:00Z"]

\* the values of the kind the schema gives the key; the first of them is falsy
ValuesOf(key, kind) ==
    CASE kind = "string"  -> {PyStr(""), PyStr(SampleOf[key])}
      [] kind = "array"   -> {PyList([i \in 1..n |-> SampleOf[key]]) : n \in 0..MaxListLen}
      [] kind = "integer" -> {PyInt(n) : n \in 0..MaxInt}

\* every falsy value a caller may put in place of a field
FalsyValues == {PyNone, PyStr(""), PyList(<<>>), PyInt(0)}

\* the optional fields the handler reads with a default, for which a supplied
\* None differs from an absent key
DefaultedOf(name) == IF name = "create_object" THEN {"body", "owned_by"} ELSE {}

\* what a caller may supply for a key: a value of its kind; for a required
\* field also every falsy value; for a defaulted field also None
SuppliedFor(name, key) ==
    ValuesOf(key, KeysOf(name)[key])
    \cup (IF name \in ToolNames /\ key \in RequiredOf(name) THEN FalsyValues ELSE {})
    \cup (IF key \in DefaultedOf(name) THEN {PyNone} ELSE {})

RECURSIVE ArgMaps(_, _)
\* every map from a subset of keys to supplied values
ArgMaps(name, keys) ==
    IF keys = {} THEN {<<>>}
    ELSE LET k == CHOOSE k \in keys : TRUE
             rest == ArgMaps(name, keys \ {k})
         IN  rest \cup { (k :> v) @@ m : v \in SuppliedFor(name, k), m \in rest }

\* the arguments of an invocation: absent, or one of the maps
ArgSpace(name) ==
    {PyNone} \cup { PyDict(m) : m \in ArgMaps(name, DOMAIN KeysOf(name)) }

(***************************************************************************)
(* The remote client, as the handler sees it: one call either raises or    *)
(* returns a response with a status code, the raw text and, when the text  *)
(* is JSON, its decoded body.                                              *)
(***************************************************************************)
\* the status a response must have to count as a success
HTTP_OK == 200
\* HTTP_CREATED as the status of the other tools
HttpCreatedAsOk == HTTP_OK
\* the status a response to a create tool must have to count as a success
HTTP_CREATED == 201

NoError == [type |-> "", msg |-> <<>>]
ValueError(msg) == [type |-> "ValueError", msg |-> msg]
ConnectionError == [type |-> "ConnectionError", msg |-> <<"connection refused">>]
JSONDecodeError == [type |-> "JSONDecodeError", msg |-> <<"Expecting value">>]

\* the decoded body of a text that is not JSON: response.json() raises
NotJson == [t |-> "invalid", s |-> "", l |-> <<>>, n |-> 0, d |-> <<>>]

\* raw texts with their decoded bodies
Bodies ==
    { [text |-> "{\"id\": \"W-1\"}", json |-> PyDict([id |-> PyStr("W-1")])],
      [text |-> "Bad Gateway", json |-> NotJson] }

Response(status_code, body) ==
    [kind |-> "response", status_code |-> status_code, text |-> body.text,
     json |-> body.json, error |-> NoError]

RemoteRaises ==
    [kind |-> "raises", status_code |-> 0, text |-> "", json |-> NotJson,
     error |-> ConnectionError]

NotCalled ==
    [kind |-> "not_called", status_code |-> 0, text |-> "", json |-> NotJson,
     error |-> NoError]

\* what the remote client may do when called
Remotes ==
    {RemoteRaises}
    \cup { Response(s, b) : s \in {200, 201, 404}, b \in Bodies }

(***************************************************************************)
(* handle_call_tool.  A dispatch ends raised (an error reaches the caller) *)
(* or returned (a list of content items); calls are the calls it made on   *)
(* the remote client, in order.                                            *)
(***************************************************************************)
Raised(calls, error) ==
    [calls |-> calls, kind |-> "raised", content |-> <<>>, error |-> error]
Returned(calls, content) ==
    [calls |-> calls, kind |-> "returned", content |-> content, error |-> NoError]

\* types.TextContent(type="text", text=...)
TextContent(text) == [type |-> "text", text |-> text]

\* an optional payload entry: set only when the value is truthy
Entry(key, value) == IF Truthy(value) THEN key :> value ELSE <<>>

\* MakeDevrevRequest with the call made twice
MakeDevrevRequestTwice(endpoint, payload, remote) ==
    [calls |-> << [endpoint |-> endpoint, payload |-> payload],
                  [endpoint |-> endpoint, payload |-> payload] >>,
     response |-> remote]

\* MakeDevrevRequest with the call made again when it raised
MakeDevrevRequestRetry(endpoint, payload, remote) ==
    [calls |-> IF remote.kind = "raises"
               THEN << [endpoint |-> endpoint, payload |-> payload],
                       [endpoint |-> endpoint, payload |-> payload] >>
               ELSE << [endpoint |-> endpoint, payload |-> payload] >>,
     response |-> remote]

\* response = make_devrev_request(endpoint, payload): one call on the remote
\* client, whose outcome (a response, or an exception) is the handler's
MakeDevrevRequest(endpoint, payload, remote) ==
    [calls |-> << [endpoint |-> endpoint, payload |-> payload] >>,
     response |-> remote]

SearchBranch(arguments, remote) ==
    IF ~Truthy(arguments) THEN Raised(<<>>, ValueError(<<"Missing arguments">>))
    ELSE LET query == Get(arguments, "query") IN
    IF ~Truthy(query) THEN Raised(<<>>, ValueError(<<"Missing query parameter">>))
    ELSE LET namespace == Get(arguments, "namespace") IN
    IF ~Truthy(namespace) THEN Raised(<<>>, ValueError(<<"Missing namespace parameter">>))
    ELSE LET req == MakeDevrevRequest("search.hybrid",
                        [query |-> query, namespace |-> namespace], remote)
             response == req.response IN
    IF response.kind = "raises" THEN Raised(req.calls, response.error)
    ELSE IF response.status_code # HTTP_OK
    THEN Returned(req.calls, << TextContent(
             <<"Search failed with status ">> \o IntStr(response.status_code)
             \o <<": ", response.text>>) >>)
    ELSE IF response.json = NotJson THEN Raised(req.calls, JSONDecodeError)
    ELSE Returned(req.calls, << TextContent(
             <<"Search results for '">> \o Format(query) \o <<"':\n">>
             \o Format(response.json)) >>)

GetCurrentUserBranch(arguments, remote) ==
    LET req == MakeDevrevRequest("dev-users.self", <<>>, remote)
        response == req.response IN
    IF response.kind = "raises" THEN Raised(req.calls, response.error)
    ELSE IF response.status_code # HTTP_OK
    THEN Returned(req.calls, << TextContent(
             <<"Get current user failed with status ">> \o IntStr(response.status_code)
             \o <<": ", response.text>>) >>)
    ELSE IF response.json = NotJson THEN Raised(req.calls, JSONDecodeError)
    ELSE Returned(req.calls, << TextContent(
             <<"Current user information: ">> \o Format(response.json)) >>)

GetObjectBranch(arguments, remote) ==
    IF ~Truthy(arguments) THEN Raised(<<>>, ValueError(<<"Missing arguments">>))
    ELSE LET id == Get(arguments, "id") IN
    IF ~Truthy(id) THEN Raised(<<>>, ValueError(<<"Missing id parameter">>))
    ELSE LET req == MakeDevrevRequest("works.get", [id |-> id], remote)
             response == req.response IN
    IF response.kind = "raises" THEN Raised(req.calls, response.error)
    ELSE IF response.status_code # HTTP_OK
    THEN Returned(req.calls, << TextContent(
             <<"Get object failed with status ">> \o IntStr(response.status_code)
             \o <<": ", response.text>>) >>)
    ELSE IF response.json = NotJson THEN Raised(req.calls, JSONDecodeError)
    ELSE Returned(req.calls, << TextContent(
             <<"Object information for '">> \o Format(id) \o <<"':\n">>
             \o Format(response.json)) >>)

\* the payload of works.create
CreateObjectPayload(object_type, title, body, applies_to_part, owned_by) ==
    [type |-> object_type, title |-> title, body |-> body,
     applies_to_part |-> applies_to_part, owned_by |-> owned_by]

CreateObjectBranch(arguments, remote) ==
    IF ~Truthy(arguments) THEN Raised(<<>>, ValueError(<<"Missing arguments">>))
    ELSE LET object_type == Get(arguments, "type") IN
    IF ~Truthy(object_type) THEN Raised(<<>>, ValueError(<<"Missing type parameter">>))
    ELSE LET title == Get(arguments, "title") IN
    IF ~Truthy(title) THEN Raised(<<>>, ValueError(<<"Missing title parameter">>))
    ELSE LET applies_to_part == Get(arguments, "applies_to_part") IN
    IF ~Truthy(applies_to_part)
    THEN Raised(<<>>, ValueError(<<"Missing applies_to_part parameter">>))
    ELSE LET body == GetDefault(arguments, "body", PyStr(""))
             owned_by == GetDefault(arguments, "owned_by", PyList(<<>>))
             req == MakeDevrevRequest("works.create",
                        CreateObjectPayload(object_type, title, body, applies_to_part, owned_by),
                        remote)
             response == req.response IN
    IF response.kind = "raises" THEN Raised(req.calls, response.error)
    ELSE IF response.status_code # HTTP_CREATED
    THEN Returned(req.calls, << TextContent(
             <<"Create object failed with status ">> \o IntStr(response.status_code)
             \o <<": ", response.text>>) >>)
    ELSE IF response.json = NotJson THEN Raised(req.calls, JSONDecodeError)
    ELSE Returned(req.calls, << TextContent(
             <<"Object created successfully: ">> \o Format(response.json)) >>)

\* UpdateObjectPayload with the body always set
UpdateObjectPayloadAlwaysBody(id, object_type, title, body) ==
    [id |-> id, type |-> object_type, body |-> body] @@ Entry("title", title)

\* update_payload: id and type, and title and body when they have values
UpdateObjectPayload(id, object_type, title, body) ==
    [id |-> id, type |-> object_type] @@ Entry("title", title) @@ Entry("body", body)

UpdateObjectBranch(arguments, remote) ==
    IF ~Truthy(arguments) THEN Raised(<<>>, ValueError(<<"Missing arguments">>))
    ELSE LET id == Get(arguments, "id") IN
    IF ~Truthy(id) THEN Raised(<<>>, ValueError(<<"Missing id parameter">>))
    ELSE LET object_type == Get(arguments, "type") IN
    IF ~Truthy(object_type) THEN Raised(<<>>, ValueError(<<"Missing type parameter">>))
    ELSE LET title == Get(arguments, "title")
             body == Get(arguments, "body")
             req == MakeDevrevRequest("works.update",
                        UpdateObjectPayload(id, object_type, title, body), remote)
             response == req.response IN
    IF response.kind = "raises" THEN Raised(req.calls, response.error)
    ELSE IF response.status_code # HTTP_OK
    THEN Returned(req.calls, << TextContent(
             <<"Update object failed with status ">> \o IntStr(response.status_code)
             \o <<": ", response.text>>) >>)
    ELSE Returned(req.calls, << TextContent(
             <<"Object updated successfully: ">> \o Format(id)) >>)

\* ListWorksPayload with the stage passed through like the other fields
ListWorksPayloadFlatStage(arguments) ==
    Entry("type", Get(arguments, "type"))
    @@ Entry("applies_to_part", Get(arguments, "applies_to_part"))
    @@ Entry("created_by", Get(arguments, "created_by"))
    @@ Entry("owned_by", Get(arguments, "owned_by"))
    @@ Entry("stage", Get(arguments, "stage"))
    @@ Entry("state", Get(arguments, "state"))
    @@ Entry("limit", Get(arguments, "limit"))

\* the payload of works.list: every filter that has a value, the stage
\* wrapped as {"name": stage}
ListWorksPayload(arguments) ==
    LET stage == Get(arguments, "stage") IN
    Entry("type", Get(arguments, "type"))
    @@ Entry("applies_to_part", Get(arguments, "applies_to_part"))
    @@ Entry("created_by", Get(arguments, "created_by"))
    @@ Entry("owned_by", Get(arguments, "owned_by"))
    @@ (IF Truthy(stage) THEN "stage" :> PyDict([name |-> stage]) ELSE <<>>)
    @@ Entry("state", Get(arguments, "state"))
    @@ Entry("limit", Get(arguments, "limit"))

ListWorksBranch(arguments, remote) ==
    IF ~Truthy(arguments) THEN Raised(<<>>, ValueError(<<"Missing arguments">>))
    ELSE LET req == MakeDevrevRequest("works.list", ListWorksPayload(arguments), remote)
             response == req.response IN
    IF response.kind = "raises" THEN Raised(req.calls, response.error)
    ELSE IF response.status_code # HTTP_OK
    THEN Returned(req.calls, << TextContent(
             <<"List works failed with status ">> \o IntStr(response.status_code)
             \o <<": ", response.text>>) >>)
    ELSE IF response.json = NotJson THEN Raised(req.calls, JSONDecodeError)
    ELSE Returned(req.calls, << TextContent(
             <<"Works listed successfully: ">> \o Format(response.json)) >>)

GetPartBranch(arguments, remote) ==
    IF ~Truthy(arguments) THEN Raised(<<>>, ValueError(<<"Missing arguments">>))
    ELSE LET id == Get(arguments, "id") IN
    IF ~Truthy(id) THEN Raised(<<>>, ValueError(<<"Missing id parameter">>))
    ELSE LET req == MakeDevrevRequest("parts.get", [id |-> id], remote)
             response == req.response IN
    IF response.kind = "raises" THEN Raised(req.calls, response.error)
    ELSE IF response.status_code # HTTP_OK
    THEN Returned(req.calls, << TextContent(
             <<"Get part failed with status ">> \o IntStr(response.status_code)
             \o <<": ", response.text>>) >>)
    ELSE IF response.json = NotJson THEN Raised(req.calls, JSONDecodeError)
    ELSE Returned(req.calls, << TextContent(
             <<"Part information for '">> \o Format(id) \o <<"':\n">>
             \o Format(response.json)) >>)

CreatePartBranch(arguments, remote) ==
    IF ~Truthy(arguments) THEN Raised(<<>>, ValueError(<<"Missing arguments">>))
    ELSE LET type == Get(arguments, "type") IN
    IF ~Truthy(type) THEN Raised(<<>>, ValueError(<<"Missing type parameter">>))
    ELSE LET name == Get(arguments, "name") IN
    IF ~Truthy(name) THEN Raised(<<>>, ValueError(<<"Missing name parameter">>))
    ELSE LET owned_by == Get(arguments, "owned_by") IN
    IF ~Truthy(owned_by) THEN Raised(<<>>, ValueError(<<"Missing owned_by parameter">>))
    ELSE LET parent_part == Get(arguments, "parent_part") IN
    IF ~Truthy(parent_part)
    THEN Raised(<<>>, ValueError(<<"Missing parent_part parameter">>))
    ELSE LET payload == [type |-> type, name |-> name, owned_by |-> owned_by,
                         parent_part |-> parent_part]
                        @@ Entry("description", Get(arguments, "description"))
             req == MakeDevrevRequest("parts.create", payload, remote)
             response == req.response IN
    IF response.kind = "raises" THEN Raised(req.calls, response.error)
    ELSE IF response.status_code # HTTP_CREATED
    THEN Returned(req.calls, << TextContent(
             <<"Create part failed with status ">> \o IntStr(response.status_code)
             \o <<": ", response.text>>) >>)
    ELSE IF response.json = NotJson THEN Raised(req.calls, JSONDecodeError)
    ELSE Returned(req.calls, << TextContent(
             <<"Part created successfully: ">> \o Format(response.json)) >>)

UpdatePartBranch(arguments, remote) ==
    IF ~Truthy(arguments) THEN Raised(<<>>, ValueError(<<"Missing arguments">>))
    ELSE LET id == Get(arguments, "id") IN
    IF ~Truthy(id) THEN Raised(<<>>, ValueError(<<"Missing id parameter">>))
    ELSE LET type == Get(arguments, "type") IN
    IF ~Truthy(type) THEN Raised(<<>>, ValueError(<<"Missing type parameter">>))
    ELSE LET payload == [id |-> id, type |-> type]
                        @@ Entry("name", Get(arguments, "name"))
                        @@ Entry("description", Get(arguments, "description"))
                        @@ Entry("owned_by", Get(arguments, "owned_by"))
                        @@ Entry("target_close_date", Get(arguments, "target_close_date"))
                        @@ Entry("target_start_date", Get(arguments, "target_start_date"))
             req == MakeDevrevRequest("parts.update", payload, remote)
             response == req.response IN
    IF response.kind = "raises" THEN Raised(req.calls, response.error)
    ELSE IF response.status_code # HTTP_OK
    THEN Returned(req.calls, << TextContent(
             <<"Update part failed with status ">> \o IntStr(response.status_code)
             \o <<": ", response.text>>) >>)
    ELSE IF response.json = NotJson THEN Raised(req.calls, JSONDecodeError)
    ELSE Returned(req.calls, << TextContent(
             <<"Part updated successfully: ">> \o Format(response.json)) >>)

\* the if/elif chain on the tool name
HandleCallTool(name, arguments, remote) ==
    IF name = "search" THEN SearchBranch(arguments, remote)
    ELSE IF name = "get_current_user" THEN GetCurrentUserBranch(arguments, remote)
    ELSE IF name = "get_object" THEN GetObjectBranch(arguments, remote)
    ELSE IF name = "create_object" THEN CreateObjectBranch(arguments, remote)
    ELSE IF name = "update_object" THEN UpdateObjectBranch(arguments, remote)
    ELSE IF name = "list_works" THEN ListWorksBranch(arguments, remote)
    ELSE IF name = "get_part" THEN GetPartBranch(arguments, remote)
    ELSE IF name = "create_part" THEN CreatePartBranch(arguments, remote)
    ELSE IF name = "update_part" THEN UpdatePartBranch(arguments, remote)
    ELSE Raised(<<>>, ValueError(<<"Unknown tool: ", name>>))

(***************************************************************************)
(* The server: one request at a time; nothing of a request outlives it.    *)
(***************************************************************************)
VARIABLES
    pc,         \* "idle": waiting for a request; "done": a request was handled
    name,       \* the tool name of the tools/call request handled, "" if none
    arguments,  \* its arguments: PyNone (absent) or a dict
    calls,      \* the calls the handler made on the remote client, in order
    remote,     \* what the remote client did when called (NotCalled if it was not)
    outcome,    \* how the handler ended: [kind, content, error]
    listed      \* the tools the tools/list request handled returned, <<>> if none

vars == <<pc, name, arguments, calls, remote, outcome, listed>>

NoOutcome == [kind |-> "none", content |-> <<>>, error |-> NoError]

Init ==
    /\ pc = "idle"
    /\ name = ""
    /\ arguments = PyNone
    /\ calls = <<>>
    /\ remote = NotCalled
    /\ outcome = NoOutcome
    /\ listed = <<>>

\* a tools/list request
HandleListTools ==
    /\ pc = "idle"
    /\ pc' = "done"
    /\ listed' = ListTools
    /\ UNCHANGED <<name, arguments, calls, remote, outcome>>

\* the handler runs on a tools/call request for tool n with arguments a, the
\* remote client behaving as r, and the request is handled
Handled(n, a, r) ==
    LET res == HandleCallTool(n, a, r) IN
    /\ name' = n
    /\ arguments' = a
    /\ calls' = res.calls
    /\ remote' = IF res.calls = <<>> THEN NotCalled ELSE r
    /\ outcome' = [kind |-> res.kind, content |-> res.content, error |-> res.error]
    /\ pc' = "done"
    /\ UNCHANGED listed

\* a tools/call request for search, with any arguments and remote behaviour
CallSearch ==
    /\ pc = "idle"
    /\ \E a \in ArgSpace("search"), r \in Remotes : Handled("search", a, r)

\* a tools/call request for get_current_user, with any arguments and remote behaviour
CallGetCurrentUser ==
    /\ pc = "idle"
    /\ \E a \in ArgSpace("get_current_user"), r \in Remotes : Handled("get_current_user", a, r)

\* a tools/call request for get_object, with any arguments and remote behaviour
CallGetObject ==
    /\ pc = "idle"
    /\ \E a \in ArgSpace("get_object"), r \in Remotes : Handled("get_object", a, r)

\* a tools/call request for create_object, with any arguments and remote behaviour
CallCreateObject ==
    /\ pc = "idle"
    /\ \E a \in ArgSpace("create_object"), r \in Remotes : Handled("create_object", a, r)

\* a tools/call request for update_object, with any arguments and remote behaviour
CallUpdateObject ==
    /\ pc = "idle"
    /\ \E a \in ArgSpace("update_object"), r \in Remotes : Handled("update_object", a, r)

\* a tools/call request for list_works, with any arguments and remote behaviour
CallListWorks ==
    /\ pc = "idle"
    /\ \E a \in ArgSpace("list_works"), r \in Remotes : Handled("list_works", a, r)

\* a tools/call request for get_part, with any arguments and remote behaviour
CallGetPart ==
    /\ pc = "idle"
    /\ \E a \in ArgSpace("get_part"), r \in Remotes : Handled("get_part", a, r)

\* a tools/call request for create_part, with any arguments and remote behaviour
CallCreatePart ==
    /\ pc = "idle"
    /\ \E a \in ArgSpace("create_part"), r \in Remotes : Handled("create_part", a, r)

\* a tools/call request for update_part, with any arguments and remote behaviour
CallUpdatePart ==
    /\ pc = "idle"
    /\ \E a \in ArgSpace("update_part"), r \in Remotes : Handled("update_part", a, r)

\* a tools/call request for a name the handler has no branch for
CallUnknown ==
    /\ pc = "idle"
    /\ \E n \in UnknownNames : \E a \in ArgSpace(n), r \in Remotes : Handled(n, a, r)

\* the request is answered and everything of it is discarded
Finish ==
    /\ pc = "done"
    /\ pc' = "idle"
    /\ name' = ""
    /\ arguments' = PyNone
    /\ calls' = <<>>
    /\ remote' = NotCalled
    /\ outcome' = NoOutcome
    /\ listed' = <<>>

Next ==
    \/ HandleListTools
    \/ CallSearch
    \/ CallGetCurrentUser
    \/ CallGetObject
    \/ CallCreateObject
    \/ CallUpdateObject
    \/ CallListWorks
    \/ CallGetPart
    \/ CallCreatePart
    \/ CallUpdatePart
    \/ CallUnknown
    \/ Finish

Spec == Init /\ [][Next]_vars

(***************************************************************************)
(* Properties.                                                             *)
(***************************************************************************)
\* a tools/call request for a listed tool has been handled
Dispatched == pc = "done" /\ name \in ToolNames

\* the key is in the arguments map with a value that is not falsy
Supplied(key) ==
    /\ arguments # PyNone
    /\ key \in DOMAIN arguments.d
    /\ arguments.d[key] \notin FalsyValues

\* the handler got past its validation: it did not raise a ValueError
PassedValidation == ~(outcome.kind = "raised" /\ outcome.error.type = "ValueError")

\* the status that counts as success: 201 for the create tools, 200 otherwise
SuccessCodeOf(n) == IF n \in {"create_object", "create_part"} THEN 201 ELSE 200

\* the fixed endpoint of every tool
EndpointOf ==
    [search |-> "search.hybrid", get_current_user |-> "dev-users.self",
     get_object |-> "works.get", create_object |-> "works.create",
     update_object |-> "works.update", list_works |-> "works.list",
     get_part |-> "parts.get", create_part |-> "parts.create",
     update_part |-> "parts.update"]

\* C1: for every tool with at least one required field, a dispatch whose
\* arguments are absent, or lack a required field or hold a falsy value for
\* it, raises a local error and makes no call on the remote client.
C1_MissingRequiredRaisesWithoutCall ==
    (Dispatched /\ RequiredOf(name) # {} /\ \E f \in RequiredOf(name) : ~Supplied(f))
    => /\ outcome.kind = "raised"
       /\ outcome.error.type = "ValueError"
       /\ calls = <<>>

\* create_part with one required field an empty array, the others supplied
C1_Witness ==
    /\ pc = "done" /\ name = "create_part"
    /\ Supplied("type") /\ Supplied("name") /\ Supplied("owned_by")
    /\ arguments.d = [type |-> PyStr("ticket"), name |-> PyStr("n"),
                      owned_by |-> PyList(<<"DEVU-1">>), parent_part |-> PyList(<<>>)]
    /\ outcome.error = ValueError(<<"Missing parent_part parameter">>)
    /\ calls = <<>>

\* C2: a dispatch of a listed tool never makes more than one call, and one
\* that passes validation makes exactly one, on the tool's fixed endpoint.
C2_ExactlyOneCallOnFixedEndpoint ==
    Dispatched
    => /\ Len(calls) <= 1
       /\ PassedValidation => (Len(calls) = 1 /\ calls[1].endpoint = EndpointOf[name])

\* update_part answered with a failure status after one call on parts.update
C2_Witness ==
    /\ pc = "done" /\ name = "update_part"
    /\ remote.kind = "response" /\ remote.status_code = 404
    /\ Len(calls) = 1 /\ calls[1].endpoint = "parts.update"

\* C3: when the remote client returns a status that is not the tool's
\* success code, the dispatch raises nothing and returns exactly one text
\* item holding that status code and the raw response text.
C3_FailureStatusIsReportedAsText ==
    (Dispatched /\ remote.kind = "response" /\ remote.status_code # SuccessCodeOf(name))
    => /\ outcome.kind = "returned"
       /\ Len(outcome.content) = 1
       /\ outcome.content[1].type = "text"
       /\ Contains(outcome.content[1].text, IntStr(remote.status_code))
       /\ Contains(outcome.content[1].text, <<remote.text>>)

\* a 200 returned to create_object is reported as a failure
C3_Witness ==
    /\ pc = "done" /\ name = "create_object"
    /\ remote.kind = "response" /\ remote.status_code = 200
    /\ outcome.kind = "returned"
    /\ outcome.content[1].text =
          <<"Create object failed with status ", "2", "0", "0", ": ", remote.text>>

\* C4: for every tool, update_object included, a dispatch answered with the
\* tool's success status (and a body that decodes) returns exactly one item
\* whose text holds the decoded body.
C4_SuccessTextHoldsDecodedBody ==
    (Dispatched /\ remote.kind = "response" /\ remote.status_code = SuccessCodeOf(name)
       /\ remote.json # NotJson)
    => /\ outcome.kind = "returned"
       /\ Len(outcome.content) = 1
       /\ Contains(outcome.content[1].text, Format(remote.json))

\* the payload of the one call holds id, type and exactly the truthy ones of
\* the optional fields, each as supplied
UpdatePayloadIs(optional) ==
    LET p == calls[1].payload IN
    /\ DOMAIN p = {"id", "type"} \cup { k \in optional : Supplied(k) }
    /\ \A k \in DOMAIN p : p[k] = arguments.d[k]

\* C5 as stated: for update_object, the payload holds id, type and exactly
\* those of title, body, applies_to_part and owned_by supplied truthy.
C5_UpdatePayloadForwardsFourOptionals ==
    (pc = "done" /\ name = "update_object" /\ PassedValidation)
    => Len(calls) = 1 /\ UpdatePayloadIs({"title", "body", "applies_to_part", "owned_by"})

\* C5 as amended: for update_object, the payload holds id, type and exactly
\* those of title and body supplied truthy, each unchanged, and no other key
\* (applies_to_part and owned_by are never forwarded).
C5_UpdatePayloadForwardsTitleAndBody ==
    (pc = "done" /\ name = "update_object" /\ PassedValidation)
    => Len(calls) = 1 /\ UpdatePayloadIs({"title", "body"})

\* update_object with a title and an applies_to_part: only the title is forwarded
C5_Witness ==
    /\ pc = "done" /\ name = "update_object"
    /\ arguments = PyDict([id |-> PyStr("X"), type |-> PyStr("ticket"),
                           title |-> PyStr("t"), applies_to_part |-> PyStr("PART-1")])
    /\ Len(calls) = 1
    /\ calls[1].payload = [id |-> PyStr("X"), type |-> PyStr("ticket"), title |-> PyStr("t")]

\* the filters of list_works that pass through unchanged
PassThrough == {"type", "applies_to_part", "created_by", "owned_by", "state", "limit"}

\* C6: for list_works with a non-empty arguments map, the payload has a
\* pass-through key exactly when it is supplied truthy, with the value
\* unchanged, the key stage exactly when stage is supplied truthy, with the
\* value {"name": stage}, and no other key.
C6_ListWorksPayload ==
    (pc = "done" /\ name = "list_works" /\ arguments # PyNone /\ DOMAIN arguments.d # {})
    => /\ Len(calls) = 1
       /\ LET p == calls[1].payload IN
          /\ DOMAIN p = { k \in PassThrough \cup {"stage"} : Supplied(k) }
          /\ \A k \in DOMAIN p \cap PassThrough : p[k] = arguments.d[k]
          /\ "stage" \in DOMAIN p => p["stage"] = PyDict([name |-> arguments.d["stage"]])

\* {stage: ["triage"]} gives exactly {stage: {name: ["triage"]}}
C6_Witness ==
    /\ pc = "done" /\ name = "list_works"
    /\ arguments = PyDict([stage |-> PyList(<<"triage">>)])
    /\ Len(calls) = 1
    /\ calls[1].payload = [stage |-> PyDict([name |-> PyList(<<"triage">>)])]

\* C7: for create_object with type, title and applies_to_part supplied
\* truthy, the payload holds the five keys type, title, body,
\* applies_to_part, owned_by; body is "" and owned_by is [] when absent from
\* the arguments, and the supplied value otherwise.
C7_CreateObjectPayload ==
    (pc = "done" /\ name = "create_object"
       /\ Supplied("type") /\ Supplied("title") /\ Supplied("applies_to_part"))
    => /\ Len(calls) = 1
       /\ LET p == calls[1].payload
              a == arguments.d IN
          /\ DOMAIN p = {"type", "title", "body", "applies_to_part", "owned_by"}
          /\ \A k \in {"type", "title", "applies_to_part"} : p[k] = a[k]
          /\ p["body"] = IF "body" \in DOMAIN a THEN a["body"] ELSE PyStr("")
          /\ p["owned_by"] = IF "owned_by" \in DOMAIN a THEN a["owned_by"] ELSE PyList(<<>>)

\* body and owned_by omitted: the payload holds body "" and owned_by []
C7_Witness ==
    /\ pc = "done" /\ name = "create_object"
    /\ arguments = PyDict([type |-> PyStr("ticket"), title |-> PyStr("t"),
                           applies_to_part |-> PyStr("PART-1")])
    /\ Len(calls) = 1
    /\ calls[1].payload["body"] = PyStr("")
    /\ calls[1].payload["owned_by"] = PyList(<<>>)

\* C8: a dispatch ends with the error "Unknown tool: <name>" exactly when its
\* name is not one the catalog lists, and then it makes no remote call.
C8_UnknownExactlyWhenUnlisted ==
    (pc = "done" /\ name # "")
    => /\ (outcome.kind = "raised" /\ outcome.error = ValueError(<<"Unknown tool: ", name>>))
          <=> name \notin ToolNames
       /\ name \notin ToolNames => calls = <<>>

\* the unlisted name get_work, with an id, is reported unknown
C8_Witness ==
    /\ pc = "done" /\ name = "get_work"
    /\ arguments = PyDict([id |-> PyStr("X")])
    /\ outcome.error = ValueError(<<"Unknown tool: ", "get_work">>)
    /\ calls = <<>>

\* C9: when the call on the remote client raises, the dispatch ends with
\* that error, returns no content item and has called the client once.
C9_RemoteErrorPropagates ==
    (Dispatched /\ remote.kind = "raises")
    => /\ outcome.kind = "raised"
       /\ outcome.error = remote.error
       /\ outcome.content = <<>>
       /\ Len(calls) = 1

\* a search whose remote call raised
C9_Witness ==
    /\ pc = "done" /\ name = "search"
    /\ remote.kind = "raises"
    /\ outcome.kind = "raised" /\ outcome.error = ConnectionError
    /\ Len(calls) = 1

\* C10: for every listed tool, an arguments map passes validation and
\* reaches the remote call exactly when it supplies a non-empty value for
\* every field of the tool's schema "required" list (so {} is accepted by
\* list_works and get_current_user).
C10_SchemaRequiredDecidesValidation ==
    (Dispatched /\ arguments # PyNone)
    => (Len(calls) >= 1 <=> \A f \in RequiredOf(name) : Supplied(f))

============================================================================
